---- MODULE Spec2Model ----
(***************************************************************************)
(* Model of the formatted-debug crate: the grid skeleton builder           *)
(* (table_formatting/grid_formatting.rs) and the content grid generator    *)
(* (table_formatting/string_grid.rs).                                      *)
(*                                                                         *)
(* A Rust String is modelled as what it is: a sequence of UTF-8 bytes.     *)
(* Characters are Unicode code points (integers); Utf8Encode turns a code  *)
(* point into its 1..3 bytes and chars/char_indices decode a byte          *)
(* sequence the way str::chars and str::char_indices do.                   *)
(*                                                                         *)
(* usize values are held in their two's complement reading: a negative     *)
(* integer v stands for the wrapped value 2^64 + v, which is what a        *)
(* subtraction below zero produces in a build without overflow checks.     *)
(* Every wrapped value is larger than isize::MAX.                          *)
(*                                                                         *)
(* string_stylizing.rs is modelled by the variables style .. formatted:    *)
(* a StringStyle built by setter calls and then handed to format_string.   *)
(***************************************************************************)
EXTENDS Integers, Sequences, FiniteSets, TLC

VARIABLES contents, U, grid, result, pc, row_index, column_index, called,
          style, initial_style, written, n_calls, input_text, formatted

\* the variables of the table side and of the styling side (pc is shared)
table_vars == <<contents, U, grid, result, row_index, column_index, called>>

style_vars == <<style, initial_style, written, n_calls, input_text, formatted>>

vars == <<table_vars, pc, style_vars>>

-----------------------------------------------------------------------------
(* Bounds of the model                                                     *)

MaxRows == 2
MaxU == 2
MaxCells == 4
MaxGridCols == 2
MaxGridRows == 2
MaxSize == 4
MaxSetterCalls == 3

-----------------------------------------------------------------------------
(* Characters used by the program                                          *)

NL == 10
SP == 32
TopLeft == 9487
TopRight == 9491
BottomLeft == 9495
BottomRight == 9499
LeftTee == 9507
RightTee == 9515
TopTee == 9523
BottomTee == 9531
Cross == 9547
VBar == 9475
HBar == 9473

-----------------------------------------------------------------------------
(* Generic helpers                                                         *)

RECURSIVE SumSeq(_)
SumSeq(s) == IF s = <<>> THEN 0 ELSE Head(s) + SumSeq(Tail(s))

RECURSIVE Concat(_)
Concat(ss) == IF ss = <<>> THEN <<>> ELSE Head(ss) \o Concat(Tail(ss))

MaxOf(S) == CHOOSE m \in S : \A x \in S : x <= m

-----------------------------------------------------------------------------
(* UTF-8: String <-> chars                                                 *)

Utf8Encode(cp) ==
    IF cp < 128 THEN <<cp>>
    ELSE IF cp < 2048 THEN <<192 + (cp \div 64), 128 + (cp % 64)>>
    ELSE <<224 + (cp \div 4096), 128 + ((cp \div 64) % 64), 128 + (cp % 64)>>

\* String::from of a sequence of code points
EncodeStr(cps) == Concat([i \in 1..Len(cps) |-> Utf8Encode(cps[i])])

\* a byte that starts a character (not a 10xxxxxx continuation byte)
IsLeadByte(b) == b < 128 \/ b >= 192

\* str::is_char_boundary, byte offset 0-based
is_char_boundary(s, index) ==
    \/ index = 0
    \/ index = Len(s)
    \/ (index > 0 /\ index < Len(s) /\ IsLeadByte(s[index + 1]))

\* str::char_indices: the 0-based byte offsets of the characters, in order
char_indices(s) ==
    LET offsets == [i \in 1..Len(s) |-> i - 1]
        starts_char(off) == IsLeadByte(s[off + 1])
    IN  SelectSeq(offsets, starts_char)

DecodeAt(s, off) ==
    LET b == s[off + 1]
    IN  IF b < 128 THEN b
        ELSE IF b < 224 THEN (b - 192) * 64 + (s[off + 2] - 128)
        ELSE (b - 224) * 4096 + (s[off + 2] - 128) * 64 + (s[off + 3] - 128)

\* str::chars collected: the code points of a String
chars(s) == LET ci == char_indices(s) IN [k \in 1..Len(ci) |-> DecodeAt(s, ci[k])]

\* s.chars().count()
chars_count(s) == Len(SelectSeq(s, IsLeadByte))

\* s.split('\n') collected
RECURSIVE split(_)
split(s) ==
    IF \A i \in 1..Len(s) : s[i] # NL THEN <<s>>
    ELSE LET p == CHOOSE i \in 1..Len(s) : s[i] = NL /\ \A j \in 1..(i - 1) : s[j] # NL
         IN  <<SubSeq(s, 1, p - 1)>> \o split(SubSeq(s, p + 1, Len(s)))

\* lines.join("\n")
RECURSIVE join(_)
join(lines) ==
    IF lines = <<>> THEN <<>>
    ELSE IF Len(lines) = 1 THEN lines[1]
    ELSE lines[1] \o <<NL>> \o join(Tail(lines))

-----------------------------------------------------------------------------
(* usize arithmetic and allocation                                         *)

\* mutation: the subtraction clamps at zero instead of failing or wrapping
saturating_sub(a, b, oc) == [panic |-> FALSE, val |-> IF a < b THEN 0 ELSE a - b]

\* a - b on usize; oc: the build has overflow checks (debug) or wraps (release)
usize_sub(a, b, oc) == [panic |-> oc /\ a < b, val |-> a - b]

\* str::repeat(n) / vec![x; n] abort with "capacity overflow" when the
\* allocation exceeds isize::MAX, which every wrapped count does
capacity_overflow(n) == n < 0

\* s.repeat(n)
repeat(s, n) == Concat([i \in 1..n |-> s])

-----------------------------------------------------------------------------
(* grid_formatting.rs: GridSizes                                           *)
(* Every operation yields [panic, val]: panic is TRUE when the Rust code   *)
(* aborts, val is the returned value otherwise.                           *)

\* ch.repeat(size - 2): the run of bars or spaces inside one column
repeat_inner(ch, size, oc) ==
    LET n == usize_sub(size, 2, oc)
    IN  [panic |-> n.panic \/ capacity_overflow(n.val),
         val   |-> repeat(Utf8Encode(ch), n.val)]

\* mutation: the column loop stops one column early (1..len-1 for 1..=len-1)
generate_top_string_short(widths, oc) ==
    LET run(i) == repeat_inner(HBar, widths[i], oc)
    IN  IF Len(widths) = 0 THEN [panic |-> TRUE, val |-> <<>>]
        ELSE [panic |-> \E i \in 1..Len(widths) : run(i).panic,
              val   |-> Utf8Encode(TopLeft) \o run(1).val
                        \o Concat([i \in 1..(Len(widths) - 2) |->
                                     Utf8Encode(TopTee) \o run(i + 1).val])
                        \o Utf8Encode(TopRight)]

\* "┏━━━┳━━┓"
generate_top_string(widths, oc) ==
    LET run(i) == repeat_inner(HBar, widths[i], oc)
    IN  IF Len(widths) = 0 THEN [panic |-> TRUE, val |-> <<>>]
        ELSE [panic |-> \E i \in 1..Len(widths) : run(i).panic,
              val   |-> Utf8Encode(TopLeft) \o run(1).val
                        \o Concat([i \in 1..(Len(widths) - 1) |->
                                     Utf8Encode(TopTee) \o run(i + 1).val])
                        \o Utf8Encode(TopRight)]

\* "┗━━━┻━━┛"
generate_bottom_string(widths, oc) ==
    LET run(i) == repeat_inner(HBar, widths[i], oc)
    IN  IF Len(widths) = 0 THEN [panic |-> TRUE, val |-> <<>>]
        ELSE [panic |-> \E i \in 1..Len(widths) : run(i).panic,
              val   |-> Utf8Encode(BottomLeft) \o run(1).val
                        \o Concat([i \in 1..(Len(widths) - 1) |->
                                     Utf8Encode(BottomTee) \o run(i + 1).val])
                        \o Utf8Encode(BottomRight)]

\* "┃   ┃  ┃"
get_unit_columns(widths, oc) ==
    LET run(i) == repeat_inner(SP, widths[i], oc)
    IN  [panic |-> \E i \in 1..Len(widths) : run(i).panic,
         val   |-> Utf8Encode(VBar)
                   \o Concat([i \in 1..Len(widths) |-> run(i).val \o Utf8Encode(VBar)])]

\* vec![unit columns; columns_height - 2]
generate_columns(widths, columns_height, oc) ==
    LET unit == get_unit_columns(widths, oc)
        n    == usize_sub(columns_height, 2, oc)
    IN  [panic |-> unit.panic \/ n.panic \/ capacity_overflow(n.val),
         val   |-> [k \in 1..n.val |-> unit.val]]

\* "┣━━━╋━━┫"
get_column_seperator(widths, oc) ==
    LET run(i) == repeat_inner(HBar, widths[i], oc)
        max_width_index == usize_sub(Len(widths), 1, oc)
    IN  [panic |-> max_width_index.panic \/ Len(widths) = 0
                   \/ \E i \in 1..Len(widths) : run(i).panic,
         val   |-> Utf8Encode(LeftTee)
                   \o Concat([i \in 1..Len(widths) |->
                                run(i).val \o (IF i # Len(widths)
                                               THEN Utf8Encode(Cross) ELSE <<>>)])
                   \o Utf8Encode(RightTee)]

\* mutation: the separator is pushed after every row, the last included
to_table_trailing_separator(g, oc) ==
    LET top == generate_top_string(g.widths, oc)
        max_height_index == usize_sub(Len(g.heights), 1, oc)
        column_seperator == get_column_seperator(g.widths, oc)
        cols(r) == generate_columns(g.widths, g.heights[r], oc)
        bottom == generate_bottom_string(g.widths, oc)
        nrows == Len(g.heights)
        failed == \/ top.panic
                  \/ max_height_index.panic
                  \/ column_seperator.panic
                  \/ nrows = 0
                  \/ \E r \in 1..nrows : cols(r).panic
                  \/ bottom.panic
    IN  [panic |-> failed,
         val   |-> IF failed THEN <<>>
                   ELSE <<top.val>>
                        \o Concat([r \in 1..nrows |->
                                     cols(r).val \o <<column_seperator.val>>])
                        \o <<bottom.val>>]

\* impl StringTable for GridSizes
to_table(g, oc) ==
    LET top == generate_top_string(g.widths, oc)
        max_height_index == usize_sub(Len(g.heights), 1, oc)
        column_seperator == get_column_seperator(g.widths, oc)
        cols(r) == generate_columns(g.widths, g.heights[r], oc)
        bottom == generate_bottom_string(g.widths, oc)
        nrows == Len(g.heights)
        failed == \/ top.panic
                  \/ max_height_index.panic
                  \/ column_seperator.panic
                  \/ nrows = 0
                  \/ \E r \in 1..nrows : cols(r).panic
                  \/ bottom.panic
    IN  [panic |-> failed,
         val   |-> IF failed THEN <<>>
                   ELSE <<top.val>>
                        \o Concat([r \in 1..nrows |->
                                     cols(r).val \o (IF r # nrows
                                                     THEN <<column_seperator.val>>
                                                     ELSE <<>>)])
                        \o <<bottom.val>>]

-----------------------------------------------------------------------------
(* The text a test prints: a String shown as code points                   *)

Shown(lines) == [i \in 1..Len(lines) |-> chars(lines[i])]

-----------------------------------------------------------------------------
(* string_grid.rs                                                          *)

\* the widest line of s, in characters
get_string_width(s) ==
    LET lines == split(s)
    IN  MaxOf({0} \cup {chars_count(lines[i]) : i \in 1..Len(lines)})

\* number of line breaks + 1
get_string_height(s) ==
    LET is_line_break(b) == b = NL
    IN  Len(SelectSeq(s, is_line_break)) + 1

\* mutation: only the first row is measured
get_max_widths_first_row(cells, arity) ==
    [column_index_ \in 1..arity |->
        MaxOf({0} \cup {get_string_width(cells[r][column_index_]) + 2 :
                          r \in 1..Len(cells) \cap {1}})]

\* Get the max width of each column
get_max_widths(cells, arity) ==
    [column_index_ \in 1..arity |->
        MaxOf({0} \cup {get_string_width(cells[r][column_index_]) + 2 :
                          r \in 1..Len(cells)})]

\* mutation: only the first column is measured
get_max_heights_first_column(cells, arity) ==
    [r \in 1..Len(cells) |->
        MaxOf({0} \cup {get_string_height(cells[r][c]) + 2 : c \in 1..arity \cap {1}})]

\* Get the max height of each row
get_max_heights(cells, arity) ==
    [r \in 1..Len(cells) |->
        MaxOf({0} \cup {get_string_height(cells[r][c]) + 2 : c \in 1..arity})]

\* mutation: the character index is used as the byte offset
map_string_index_bytes(controlling_string, index) ==
    [panic |-> index < 0 \/ index >= Len(controlling_string),
     val   |-> index]

\* controlling_string.char_indices().nth(index).unwrap().0
map_string_index(controlling_string, index) ==
    [panic |-> index < 0 \/ index >= chars_count(controlling_string),
     val   |-> IF index < 0 \/ index >= chars_count(controlling_string) THEN 0
               ELSE char_indices(controlling_string)[index + 1]]

\* mutation: the text is inserted at start and the range is kept
replace_range_keep(s, start, end, with) ==
    [panic |-> \/ ~is_char_boundary(s, start)
               \/ ~is_char_boundary(s, end)
               \/ start > end,
     val   |-> SubSeq(s, 1, start) \o with \o SubSeq(s, start + 1, Len(s))]

\* String::replace_range(start..end, with), byte offsets
replace_range(s, start, end, with) ==
    [panic |-> \/ ~is_char_boundary(s, start)
               \/ ~is_char_boundary(s, end)
               \/ start > end,
     val   |-> SubSeq(s, 1, start) \o with \o SubSeq(s, end + 1, Len(s))]

\* mutation: the walk starts at 0, on the border, instead of 1
get_replaced_dimension_index_from_zero(dimension, coord, oc) ==
    LET walked == IF coord < Len(dimension) THEN coord ELSE Len(dimension)
        step(j) == usize_sub(dimension[j], 1, oc)
    IN  [panic |-> coord >= Len(dimension) \/ \E j \in 1..walked : step(j).panic,
         val   |-> SumSeq([j \in 1..walked |-> step(j).val])]

\* mutation: the shared border is counted twice (+= dimension, not dimension - 1)
get_replaced_dimension_index_no_share(dimension, coord, oc) ==
    LET walked == IF coord < Len(dimension) THEN coord ELSE Len(dimension)
    IN  [panic |-> coord >= Len(dimension),
         val   |-> 1 + SumSeq([j \in 1..walked |-> dimension[j]])]

\* the first line or character of element coord (0-based) of the grid
get_replaced_dimension_index(dimension, coord, oc) ==
    LET walked == IF coord < Len(dimension) THEN coord ELSE Len(dimension)
        step(j) == usize_sub(dimension[j], 1, oc)
    IN  [panic |-> coord >= Len(dimension) \/ \E j \in 1..walked : step(j).panic,
         val   |-> 1 + SumSeq([j \in 1..walked |-> step(j).val])]

\* mutation: every changed line receives the first line of the text
insert_line_first(inserted_text, current_line, line_index, string_x_start) ==
    LET inserted_line == split(inserted_text)[1]
        x_end   == map_string_index(current_line,
                                    string_x_start + get_string_width(inserted_line))
        x_start == map_string_index(current_line, string_x_start)
        rep     == replace_range(current_line, x_start.val, x_end.val, inserted_line)
    IN  [panic |-> x_end.panic \/ x_start.panic \/ rep.panic,
         val   |-> rep.val]

\* one pass of the loop body of insert_text, on the line at 0-based line_index
\* of the changed lines
insert_line(inserted_text, current_line, line_index, string_x_start) ==
    LET inserted_line == split(inserted_text)[line_index + 1]
        x_end   == map_string_index(current_line,
                                    string_x_start + get_string_width(inserted_line))
        x_start == map_string_index(current_line, string_x_start)
        rep     == replace_range(current_line, x_start.val, x_end.val, inserted_line)
    IN  [panic |-> x_end.panic \/ x_start.panic \/ rep.panic,
         val   |-> rep.val]

\* insert the text into the grid, and return the modified lines;
\* x, y: the GridCoord (0-based column and row)
insert_text(inserted_text, original_lines, g, x, y, oc) ==
    LET y_start == get_replaced_dimension_index(g.heights, y, oc)
        string_y_end == y_start.val + get_string_height(inserted_text)
        x_start == get_replaced_dimension_index(g.widths, x, oc)
        early == \/ y_start.panic
                 \/ x_start.panic
                 \/ y_start.val < 0
                 \/ string_y_end > Len(original_lines)
        changed(i) == insert_line(inserted_text, original_lines[i],
                                  (i - 1) - y_start.val, x_start.val)
        rows == IF early THEN {} ELSE (y_start.val + 1)..string_y_end
        failed == early \/ \E i \in rows : changed(i).panic
    IN  [panic |-> failed,
         val   |-> IF failed THEN <<>>
                   ELSE [i \in 1..Len(original_lines) |->
                           IF i \in rows THEN changed(i).val ELSE original_lines[i]]]

\* vec!["┏┓", "┗┛"]
EmptyBox == <<Utf8Encode(TopLeft) \o Utf8Encode(TopRight),
              Utf8Encode(BottomLeft) \o Utf8Encode(BottomRight)>>

\* GridSizes { widths: get_max_widths(contents), heights: get_max_heights(contents) }
InferGrid(cells, arity) ==
    [widths |-> get_max_widths(cells, arity), heights |-> get_max_heights(cells, arity)]

\* the insertion loop from cell number k (row-major, 0-based) to the end
RECURSIVE insertion_pass(_, _, _, _, _, _)
insertion_pass(cells, arity, g, lines, k, oc) ==
    IF k >= Len(cells) * arity THEN [panic |-> FALSE, val |-> lines]
    ELSE LET y == k \div arity
             x == k % arity
             one == insert_text(cells[y + 1][x + 1], lines, g, x, y, oc)
         IN  IF one.panic THEN one
             ELSE insertion_pass(cells, arity, g, one.val, k + 1, oc)

\* pub fn generate_string_grid, as a function of its argument
generate_string_grid(cells, arity, oc) ==
    IF cells = <<>> THEN [panic |-> FALSE, val |-> EmptyBox]
    ELSE LET g == InferGrid(cells, arity)
             skeleton == to_table(g, oc)
         IN  IF skeleton.panic THEN skeleton
             ELSE insertion_pass(cells, arity, g, skeleton.val, 0, oc)

-----------------------------------------------------------------------------
(* string_stylizing.rs                                                     *)

\* enum StringColor, in declaration order
StringColor ==
    <<"Black", "Red", "Green", "Yellow", "Blue", "Magenta", "Cyan", "White",
      "Gray", "Pink", "Lime", "BrightYellow", "LightBlue", "LightMagenta",
      "LightCyan", "BrightWhite", "None">>

\* enum StringBlinkSpeed
StringBlinkSpeed == <<"None", "Slow", "Fast">>

\* the fields of struct StringStyle
Attributes ==
    {"bold", "faint", "italicized", "underline", "strikethrough",
     "blink", "color", "background_color"}

\* impl Default for StringStyle
StringStyle_default ==
    [bold |-> FALSE, faint |-> FALSE, italicized |-> FALSE, underline |-> FALSE,
     strikethrough |-> FALSE, blink |-> "None", color |-> "None",
     background_color |-> "None"]

\* StringStyle {bold, .. *self}
set_bold(self, bold) ==
    [bold |-> bold, faint |-> self.faint, italicized |-> self.italicized,
     underline |-> self.underline, strikethrough |-> self.strikethrough,
     blink |-> self.blink, color |-> self.color,
     background_color |-> self.background_color]

\* mutation: the other fields are taken from the default style, not from self
set_italicized_from_default(self, italicized) ==
    [bold |-> FALSE, faint |-> FALSE, italicized |-> italicized,
     underline |-> FALSE, strikethrough |-> FALSE, blink |-> "None",
     color |-> "None", background_color |-> "None"]

\* StringStyle {italicized, .. *self}
set_italicized(self, italicized) ==
    [bold |-> self.bold, faint |-> self.faint, italicized |-> italicized,
     underline |-> self.underline, strikethrough |-> self.strikethrough,
     blink |-> self.blink, color |-> self.color,
     background_color |-> self.background_color]

\* StringStyle {underline, .. *self}
set_underline(self, underline) ==
    [bold |-> self.bold, faint |-> self.faint, italicized |-> self.italicized,
     underline |-> underline, strikethrough |-> self.strikethrough,
     blink |-> self.blink, color |-> self.color,
     background_color |-> self.background_color]

\* StringStyle {strikethrough, .. *self}
set_strikethrough(self, strikethrough) ==
    [bold |-> self.bold, faint |-> self.faint, italicized |-> self.italicized,
     underline |-> self.underline, strikethrough |-> strikethrough,
     blink |-> self.blink, color |-> self.color,
     background_color |-> self.background_color]

\* StringStyle {faint, .. *self}
set_faint(self, faint) ==
    [bold |-> self.bold, faint |-> faint, italicized |-> self.italicized,
     underline |-> self.underline, strikethrough |-> self.strikethrough,
     blink |-> self.blink, color |-> self.color,
     background_color |-> self.background_color]

\* StringStyle {color: *text_color, .. *self}
set_text_color(self, text_color) ==
    [bold |-> self.bold, faint |-> self.faint, italicized |-> self.italicized,
     underline |-> self.underline, strikethrough |-> self.strikethrough,
     blink |-> self.blink, color |-> text_color,
     background_color |-> self.background_color]

\* StringStyle {background_color: *background_color, .. *self}
set_background_color(self, background_color) ==
    [bold |-> self.bold, faint |-> self.faint, italicized |-> self.italicized,
     underline |-> self.underline, strikethrough |-> self.strikethrough,
     blink |-> self.blink, color |-> self.color,
     background_color |-> background_color]

\* StringStyle {blink: *blink_speed, .. *self}
set_blink_speed(self, blink_speed) ==
    [bold |-> self.bold, faint |-> self.faint, italicized |-> self.italicized,
     underline |-> self.underline, strikethrough |-> self.strikethrough,
     blink |-> blink_speed, color |-> self.color,
     background_color |-> self.background_color]

\* match style.blink
blink_code(b) ==
    CASE b = "None" -> <<>>
      [] b = "Slow" -> <<53, 59>>   \* "5;"
      [] b = "Fast" -> <<54, 59>>   \* "6;"

\* match style.color
color_code(c) ==
    CASE c = "Black" -> <<51, 48, 59>>   \* "30;"
      [] c = "Red" -> <<51, 49, 59>>   \* "31;"
      [] c = "Green" -> <<51, 50, 59>>   \* "32;"
      [] c = "Yellow" -> <<51, 51, 59>>   \* "33;"
      [] c = "Blue" -> <<51, 52, 59>>   \* "34;"
      [] c = "Magenta" -> <<51, 53, 59>>   \* "35;"
      [] c = "Cyan" -> <<51, 54, 59>>   \* "36;"
      [] c = "White" -> <<51, 55, 59>>   \* "37;"
      [] c = "Gray" -> <<57, 48, 59>>   \* "90;"
      [] c = "Pink" -> <<57, 49, 59>>   \* "91;"
      [] c = "Lime" -> <<57, 50, 59>>   \* "92;"
      [] c = "BrightYellow" -> <<57, 51, 59>>   \* "93;"
      [] c = "LightBlue" -> <<57, 52, 59>>   \* "94;"
      [] c = "LightMagenta" -> <<57, 53, 59>>   \* "95;"
      [] c = "LightCyan" -> <<57, 54, 59>>   \* "96;"
      [] c = "BrightWhite" -> <<57, 55, 59>>   \* "97;"
      [] c = "None" -> <<>>

\* match style.background_color
background_color_code(c) ==
    CASE c = "Black" -> <<52, 48, 59>>   \* "40;"
      [] c = "Red" -> <<52, 49, 59>>   \* "41;"
      [] c = "Green" -> <<52, 50, 59>>   \* "42;"
      [] c = "Yellow" -> <<52, 51, 59>>   \* "43;"
      [] c = "Blue" -> <<52, 52, 59>>   \* "44;"
      [] c = "Magenta" -> <<52, 53, 59>>   \* "45;"
      [] c = "Cyan" -> <<52, 54, 59>>   \* "46;"
      [] c = "White" -> <<52, 55, 59>>   \* "47;"
      [] c = "Gray" -> <<49, 48, 48, 59>>   \* "100;"
      [] c = "Pink" -> <<49, 48, 49, 59>>   \* "101;"
      [] c = "Lime" -> <<49, 48, 50, 59>>   \* "102;"
      [] c = "BrightYellow" -> <<49, 48, 51, 59>>   \* "103;"
      [] c = "LightBlue" -> <<49, 48, 52, 59>>   \* "104;"
      [] c = "LightMagenta" -> <<49, 48, 53, 59>>   \* "105;"
      [] c = "LightCyan" -> <<49, 48, 54, 59>>   \* "106;"
      [] c = "BrightWhite" -> <<49, 48, 55, 59>>   \* "107;"
      [] c = "None" -> <<>>

\* String::pop: the String without its last character
pop(s) ==
    IF s = <<>> THEN s
    ELSE LET ci == char_indices(s) IN SubSeq(s, 1, ci[Len(ci)])

\* "\x1b[" followed by the "<code>;" of every attribute that is set
prepended_codes(s) ==
    <<27, 91>>
    \o (IF s.bold THEN <<49, 59>> ELSE <<>>)            \* "1;"
    \o (IF s.faint THEN <<50, 59>> ELSE <<>>)           \* "2;"
    \o (IF s.italicized THEN <<51, 59>> ELSE <<>>)      \* "3;"
    \o (IF s.underline THEN <<52, 59>> ELSE <<>>)       \* "4;"
    \o (IF s.strikethrough THEN <<57, 59>> ELSE <<>>)   \* "9;"
    \o blink_code(s.blink)
    \o color_code(s.color)
    \o background_color_code(s.background_color)

\* mutation: the excess ';' is not removed
format_string_no_pop(unformatted_string, s) ==
    IF s = StringStyle_default THEN unformatted_string
    ELSE prepended_codes(s) \o <<109>> \o unformatted_string \o <<27, 91, 48, 109>>

\* mutation: no test for the default style
format_string_no_default_test(unformatted_string, s) ==
    pop(prepended_codes(s)) \o <<109>> \o unformatted_string \o <<27, 91, 48, 109>>

\* pub fn format_string
format_string(unformatted_string, s) ==
    IF s = StringStyle_default THEN unformatted_string
    ELSE LET prepended_formatting == pop(prepended_codes(s)) \o <<109>>   \* 'm'
         IN  prepended_formatting \o unformatted_string
             \o <<27, 91, 48, 109>>                                     \* "\x1b[0m"

\* no style is being built
StyleIdle ==
    /\ style = StringStyle_default
    /\ initial_style = StringStyle_default
    /\ written = [a \in Attributes |-> [set |-> FALSE, val |-> StringStyle_default[a]]]
    /\ n_calls = 0
    /\ input_text = <<>>
    /\ formatted = <<>>

-----------------------------------------------------------------------------
(* Inputs                                                                  *)

\* sequences over S of length 0..n
SeqsUpTo(S, n) == UNION {[1..k -> S] : k \in 0..n}

\* a previously rendered one-cell table ("a"), its lines joined by line breaks
InnerTable == << <<EncodeStr(<<97>>)>> >>

InnerRendered == generate_string_grid(InnerTable, 1, TRUE).val

NestedText == join(InnerRendered)

\* cell texts, as the code points the caller wrote:
\* "", "a", "éb", "abcd\nc"
PlainTexts == {<<>>, <<97>>, <<233, 98>>, <<97, 98, 99, 100, NL, 99>>}

CellTexts == {EncodeStr(t) : t \in PlainTexts} \cup {NestedText}

NoGrid == [widths |-> <<>>, heights |-> <<>>]

-----------------------------------------------------------------------------
(* generate_string_grid as a state machine: one step per statement of its  *)
(* body, one InsertStep per call of insert_text                            *)

Init ==
    /\ U \in 0..MaxU
    /\ \E n \in 0..MaxRows :
         /\ n * U <= MaxCells
         /\ contents \in [1..n -> [1..U -> CellTexts]]
    /\ grid = NoGrid
    /\ result = <<>>
    /\ pc = "start"
    /\ row_index = 0
    /\ column_index = 0
    /\ called = {}
    /\ StyleIdle

\* mutation: no is_empty test, the sizes are always inferred
Enter_no_empty_test ==
    /\ pc = "start"
    /\ grid' = InferGrid(contents, U)
    /\ called' = called \cup {"get_max_widths", "get_max_heights"}
    /\ pc' = "to_table"
    /\ UNCHANGED <<result, contents, U, row_index, column_index, style_vars>>

\* the is_empty test and the construction of GridSizes
Enter ==
    /\ pc = "start"
    /\ IF contents = <<>>
       THEN /\ result' = EmptyBox
            /\ pc' = "done"
            /\ UNCHANGED <<grid, called>>
       ELSE /\ grid' = InferGrid(contents, U)
            /\ called' = called \cup {"get_max_widths", "get_max_heights"}
            /\ pc' = "to_table"
            /\ UNCHANGED result
    /\ UNCHANGED <<contents, U, row_index, column_index, style_vars>>

\* let mut result = grid.to_table();
Skeleton ==
    /\ pc = "to_table"
    /\ \E oc \in BOOLEAN :
         LET t == to_table(grid, oc)
         IN  /\ result' = t.val
             /\ pc' = IF t.panic THEN "panic"
                      ELSE IF Len(contents) * U = 0 THEN "done" ELSE "insert"
    /\ called' = called \cup {"to_table"}
    /\ UNCHANGED <<contents, U, grid, row_index, column_index, style_vars>>

\* result = insert_text(column, &mut result, &grid, GridCoord {x, y})
InsertStep ==
    /\ pc = "insert"
    /\ \E oc \in BOOLEAN :
         LET t == insert_text(contents[row_index + 1][column_index + 1],
                              result, grid, column_index, row_index, oc)
             last_column == column_index + 1 >= U
             next_row == IF last_column THEN row_index + 1 ELSE row_index
         IN  /\ result' = t.val
             /\ row_index' = next_row
             /\ column_index' = IF last_column THEN 0 ELSE column_index + 1
             /\ pc' = IF t.panic THEN "panic"
                      ELSE IF next_row >= Len(contents) THEN "done" ELSE "insert"
    /\ called' = called \cup {"insert_text"}
    /\ UNCHANGED <<contents, U, grid, style_vars>>

Next == Enter \/ Skeleton \/ InsertStep

Spec == Init /\ [][Next]_vars

-----------------------------------------------------------------------------
(* GridSizes built directly by the caller, then to_table                   *)

InitGrid ==
    /\ grid \in [widths : SeqsUpTo(0..MaxSize, MaxGridCols),
                 heights : SeqsUpTo(0..MaxSize, MaxGridRows)]
    /\ contents = <<>>
    /\ U = 0
    /\ result = <<>>
    /\ pc = "grid"
    /\ row_index = 0
    /\ column_index = 0
    /\ called = {}
    /\ StyleIdle

GridToTable ==
    /\ pc = "grid"
    /\ \E oc \in BOOLEAN :
         LET t == to_table(grid, oc)
         IN  /\ result' = t.val
             /\ pc' = IF t.panic THEN "panic" ELSE "done"
    /\ called' = called \cup {"to_table"}
    /\ UNCHANGED <<contents, U, grid, row_index, column_index, style_vars>>

NextGrid == GridToTable

SpecGrid == InitGrid /\ [][NextGrid]_vars

-----------------------------------------------------------------------------
(* Layout arithmetic used to state the properties                          *)

\* all sizes present and at least 2
ValidGrid(g) ==
    /\ Len(g.widths) > 0
    /\ Len(g.heights) > 0
    /\ \A i \in 1..Len(g.widths) : g.widths[i] >= 2
    /\ \A i \in 1..Len(g.heights) : g.heights[i] >= 2

\* 0-based index of the first interior unit of element k (1-based) of a dimension
Start(dimension, k) == 1 + SumSeq([j \in 1..(k - 1) |-> dimension[j] - 1])

ExpectedLineCount(g) == SumSeq([i \in 1..Len(g.heights) |-> g.heights[i] - 1]) + 1

ExpectedLineLength(g) == SumSeq([i \in 1..Len(g.widths) |-> g.widths[i] - 1]) + 1

\* 0-based character indices of the vertical borders
BorderColumns(g) ==
    {0} \cup {Start(g.widths, c) + g.widths[c] - 2 : c \in 1..Len(g.widths)}

\* 0-based line indices of the separator lines
SeparatorLines(g) ==
    {Start(g.heights, r) + g.heights[r] - 2 : r \in 1..(Len(g.heights) - 1)}

ExpectedInterior(g) ==
    [i \in 1..ExpectedLineLength(g) |->
        IF (i - 1) \in BorderColumns(g) THEN VBar ELSE SP]

ExpectedSeparator(g) ==
    [i \in 1..ExpectedLineLength(g) |->
        IF i = 1 THEN LeftTee
        ELSE IF i = ExpectedLineLength(g) THEN RightTee
        ELSE IF (i - 1) \in BorderColumns(g) THEN Cross
        ELSE HBar]

CharSet(line) == {line[i] : i \in 1..Len(line)}

-----------------------------------------------------------------------------
(* Properties of GridSizes::to_table, checked under SpecGrid               *)

\* C1: for non-empty widths and heights with every element >= 2, to_table
\* returns sum(heights[i]-1)+1 lines, each of sum(widths[i]-1)+1 characters;
\* the first line holds only the top border characters and the last line
\* only the bottom border characters.
C1_SkeletonDimensions ==
    (pc # "grid" /\ ValidGrid(grid)) =>
        /\ pc = "done"
        /\ Len(result) = ExpectedLineCount(grid)
        /\ \A i \in 1..Len(result) :
             Len(chars(result[i])) = ExpectedLineLength(grid)
        /\ CharSet(chars(result[1])) \subseteq {TopLeft, HBar, TopTee, TopRight}
        /\ CharSet(chars(result[Len(result)]))
             \subseteq {BottomLeft, HBar, BottomTee, BottomRight}

C1_Witness ==
    /\ pc = "done"
    /\ Len(grid.widths) = 2
    /\ Len(grid.heights) = 2
    /\ grid.widths[2] > 2
    /\ grid.heights[2] > 2
    /\ Len(result) > 2

\* C2: between the top and the bottom border, each row r contributes
\* heights[r]-2 interior lines (a vertical bar, then per column widths[i]-2
\* spaces and a vertical bar), with one separator line between consecutive
\* rows and none after the last row: len(heights)-1 separators in all; with a
\* single column no tee or cross joint character appears.
C2_SkeletonBody ==
    (pc = "done" /\ ValidGrid(grid)) =>
        LET shown == Shown(result)
            count == ExpectedLineCount(grid)
        IN  /\ Len(shown) = count
            /\ \A k \in 1..(count - 2) :
                 shown[k + 1] = IF k \in SeparatorLines(grid)
                                THEN ExpectedSeparator(grid)
                                ELSE ExpectedInterior(grid)
            /\ Cardinality({k \in 1..(count - 2) : shown[k + 1] = ExpectedSeparator(grid)
                                                   /\ k \in SeparatorLines(grid)})
                 = Len(grid.heights) - 1
            /\ Cardinality({k \in 1..(count - 2) : shown[k + 1] = ExpectedInterior(grid)})
                 = SumSeq([r \in 1..Len(grid.heights) |-> grid.heights[r] - 2])
            /\ Len(grid.widths) = 1 =>
                 \A i \in 1..Len(shown) :
                    CharSet(shown[i]) \cap {TopTee, BottomTee, Cross} = {}

C2_Witness ==
    /\ pc = "done"
    /\ Len(grid.heights) = 2
    /\ grid.heights[1] = 2
    /\ grid.heights[2] = 4
    /\ Len(grid.widths) = 2
    /\ Shown(result)[2] = ExpectedSeparator(grid)

\* C6: to_table fails, and returns no lines, whenever some element of widths
\* or of heights is below 2, wherever it stands in the sequence.
C6_SizeBelowTwoPanics ==
    (/\ pc # "grid"
     /\ \/ \E i \in 1..Len(grid.widths) : grid.widths[i] < 2
        \/ \E i \in 1..Len(grid.heights) : grid.heights[i] < 2)
    => (pc = "panic" /\ result = <<>>)

C6_Witness ==
    /\ pc = "panic"
    /\ Len(grid.widths) = 2
    /\ \A i \in 1..Len(grid.widths) : grid.widths[i] >= 2
    /\ Len(grid.heights) = 2
    /\ grid.heights[1] >= 2
    /\ grid.heights[2] = 1

-----------------------------------------------------------------------------
(* Properties of generate_string_grid, checked under Spec                  *)

\* the GridSizes of the call has been built
Inferred == "get_max_widths" \in called

\* insert_text has returned for cell (r, c), 1-based
Inserted(r, c) ==
    /\ pc \in {"insert", "done"}
    /\ "insert_text" \in called
    /\ \/ pc = "done"
       \/ r - 1 < row_index
       \/ (r - 1 = row_index /\ c - 1 < column_index)

Cells == {rc \in (1..Len(contents)) \X (1..U) : TRUE}

\* the lines of a cell's text, as code points
TextLines(r, c) == split(chars(contents[r][c]))

CellWidth(r, c) ==
    LET lines == TextLines(r, c)
    IN  MaxOf({Len(lines[l]) : l \in 1..Len(lines)})

CellHeight(r, c) ==
    LET cps == chars(contents[r][c])
    IN  Cardinality({i \in 1..Len(cps) : cps[i] = NL}) + 1

Padded(line, n) == line \o [i \in 1..(n - Len(line)) |-> SP]

\* the characters of interior line k (0-based) of row r inside column c
CellRegion(r, c, k) ==
    SubSeq(chars(result[Start(grid.heights, r) + k + 1]),
           Start(grid.widths, c) + 1,
           Start(grid.widths, c) + grid.widths[c] - 2)

ExpectedRegion(r, c, k) ==
    IF k < CellHeight(r, c)
    THEN Padded(TextLines(r, c)[k + 1], grid.widths[c] - 2)
    ELSE Padded(<<>>, grid.widths[c] - 2)

CellShown(r, c) ==
    \A k \in 0..(grid.heights[r] - 3) : CellRegion(r, c, k) = ExpectedRegion(r, c, k)

TextA == EncodeStr(<<97>>)
TextAccent == EncodeStr(<<233, 98>>)
TextTwoLines == EncodeStr(<<97, 98, 99, 100, NL, 99>>)

\* C3: line l of the text of cell (r, c) stands in output line
\* 1 + sum_{j<r}(heights[j]-1) + l from character 1 + sum_{j<c}(widths[j]-1)
\* on, followed by spaces up to the column's right border; the interior lines
\* of the row below the text are all spaces in that column.
C3_CellTextPlacement ==
    \A rc \in Cells : Inserted(rc[1], rc[2]) => CellShown(rc[1], rc[2])

C3_Witness ==
    /\ pc = "done"
    /\ U = 2
    /\ Len(contents) = 2
    /\ contents[1][1] = TextAccent
    /\ contents[2][2] = TextTwoLines
    /\ contents[2][1] = TextA
    /\ CellRegion(2, 2, 1) = <<99, SP, SP, SP>>

\* C4: the width of column c is 2 + the largest cell width (characters of
\* the widest line) over the rows, the height of row r is 2 + the largest
\* cell height (line breaks + 1) over the columns of a table that has
\* columns, so every cell fits its rectangle.
C4_InferredSizes ==
    Inferred =>
        /\ Len(grid.widths) = U
        /\ Len(grid.heights) = Len(contents)
        /\ \A c \in 1..U :
             grid.widths[c] = 2 + MaxOf({CellWidth(r, c) : r \in 1..Len(contents)})
        /\ U >= 1 =>
             \A r \in 1..Len(contents) :
                grid.heights[r] = 2 + MaxOf({CellHeight(r, c) : c \in 1..U})
        /\ \A rc \in Cells :
             /\ CellWidth(rc[1], rc[2]) <= grid.widths[rc[2]] - 2
             /\ CellHeight(rc[1], rc[2]) <= grid.heights[rc[1]] - 2

C4_Witness ==
    /\ Inferred
    /\ U = 2
    /\ Len(contents) = 2
    /\ contents[1][1] = TextA
    /\ contents[2][1] = NestedText
    /\ contents[1][2] = TextTwoLines
    /\ grid.widths = <<5, 6>>
    /\ grid.heights[1] = 4

\* C5: from the skeleton on, through every insertion, the output of a
\* non-empty table keeps the same number of lines and every line has
\* sum(widths) - (U - 1) characters.
C5_LineLengthConstant ==
    (pc \in {"insert", "done"} /\ contents # <<>>) =>
        /\ Len(result) = ExpectedLineCount(grid)
        /\ \A i \in 1..Len(result) :
             chars_count(result[i]) = SumSeq(grid.widths) - (U - 1)

C5_Witness ==
    /\ pc = "done"
    /\ "insert_text" \in called
    /\ U = 2
    /\ Len(contents) = 2
    /\ contents[1][2] = TextAccent
    /\ contents[2][1] = NestedText

\* C7: through the public entry point, for every arity (0 included) and at
\* least one row, every inferred width and height is >= 2 and the render
\* does not fail.
C7_InferredSizesAtLeastTwo ==
    Inferred =>
        /\ \A i \in 1..Len(grid.widths) : grid.widths[i] >= 2
        /\ \A i \in 1..Len(grid.heights) : grid.heights[i] >= 2
        /\ pc # "panic"

\* C8: a table with no rows yields exactly the lines "┏┓" and "┗┛", for every
\* arity, and neither the size inference nor the skeleton builder runs.
C8_EmptyTable ==
    (contents = <<>> /\ pc # "start") =>
        /\ pc = "done"
        /\ Shown(result) = << <<TopLeft, TopRight>>, <<BottomLeft, BottomRight>> >>
        /\ called = {}
        /\ grid = NoGrid

C8_Witness ==
    /\ pc = "done"
    /\ contents = <<>>
    /\ U = 2
    /\ Len(result) = 2

HasMultiByte(text) == \E i \in 1..Len(text) : text[i] >= 128

\* C9: widths are measured in code points, not bytes; no insertion fails;
\* in a row holding an inserted cell with multi-byte characters every
\* inserted cell stands at its character index, the vertical borders of the
\* row's lines stand at their character indices and the lines keep their
\* character count.
C9_MultiByteInsertion ==
    /\ Inferred =>
         \A c \in 1..U :
            grid.widths[c] - 2 = MaxOf({CellWidth(r, c) : r \in 1..Len(contents)})
    /\ ~(pc = "panic" /\ "insert_text" \in called)
    /\ \A rc \in Cells :
         (Inserted(rc[1], rc[2]) /\ HasMultiByte(contents[rc[1]][rc[2]])) =>
            /\ \A c2 \in 1..U : Inserted(rc[1], c2) => CellShown(rc[1], c2)
            /\ \A k \in 0..(grid.heights[rc[1]] - 3) :
                 LET line == chars(result[Start(grid.heights, rc[1]) + k + 1])
                 IN  /\ Len(line) = ExpectedLineLength(grid)
                     /\ \A b \in BorderColumns(grid) : line[b + 1] = VBar

C9_Witness ==
    /\ pc = "done"
    /\ U = 2
    /\ Len(contents) = 1
    /\ contents[1][1] = TextAccent
    /\ contents[1][2] = TextA
    /\ grid.widths[1] = 4
    /\ chars(result[2]) = <<VBar, 233, 98, VBar, 97, VBar>>

\* byte offset of character index n in a String
ByteOffset(line, n) ==
    LET cps == chars(line)
    IN  SumSeq([i \in 1..n |-> Len(Utf8Encode(cps[i]))])

\* C10: a cell whose text is the joined lines of a rendered table shows
\* each inner line verbatim (byte for byte, contiguous), inner line i on the
\* i-th interior line of the row from the column's offset on, followed by
\* spaces up to the outer vertical border.
C10_NestedTableVerbatim ==
    \A rc \in Cells :
        (Inserted(rc[1], rc[2]) /\ contents[rc[1]][rc[2]] = join(InnerRendered)) =>
            \A i \in 1..Len(InnerRendered) :
                LET line == result[Start(grid.heights, rc[1]) + i]
                    x == Start(grid.widths, rc[2])
                    off == ByteOffset(line, x)
                    inner == InnerRendered[i]
                    after == x + Len(chars(inner))
                    border == x + grid.widths[rc[2]] - 2
                IN  /\ SubSeq(line, off + 1, off + Len(inner)) = inner
                    /\ \A j \in after..(border - 1) : chars(line)[j + 1] = SP
                    /\ chars(line)[border + 1] = VBar

C10_Witness ==
    /\ pc = "done"
    /\ U = 2
    /\ Len(contents) = 2
    /\ contents[2][2] = NestedText
    /\ contents[1][2] = TextTwoLines
    /\ contents[2][1] = NestedText
    /\ chars(result[5]) = <<VBar, TopLeft, HBar, TopRight, VBar,
                            TopLeft, HBar, TopRight, SP, VBar>>

-----------------------------------------------------------------------------
(* The insertion pass: index safety and frame                              *)

\* C14: for a non-empty table of arity U >= 1, at every insert_text call of
\* the insertion pass the coordinate walk finds its element, the line range
\* ends within the lines of the skeleton and every character index handed
\* to map_string_index is below the character count of its line; no
\* insertion faults.
C14_InsertionIndicesInRange ==
    /\ (U >= 1 /\ contents # <<>>) => pc # "panic"
    /\ pc = "insert" =>
         \A oc \in BOOLEAN :
            LET text == contents[row_index + 1][column_index + 1]
                y == get_replaced_dimension_index(grid.heights, row_index, oc)
                x == get_replaced_dimension_index(grid.widths, column_index, oc)
                string_y_end == y.val + get_string_height(text)
                lines == split(text)
            IN  /\ ~y.panic
                /\ ~x.panic
                /\ y.val >= 0
                /\ string_y_end <= Len(result)
                /\ \A l \in 1..Len(lines) :
                     /\ x.val >= 0
                     /\ x.val + get_string_width(lines[l])
                          < chars_count(result[y.val + l])

C14_Witness ==
    /\ pc = "insert"
    /\ U = 2
    /\ Len(contents) = 2
    /\ row_index = 1
    /\ column_index = 1
    /\ contents[2][2] = NestedText
    /\ contents[1][2] = TextTwoLines
    /\ Len(result) = 8

\* line and column (0-based) lie in the interior of cell (r, c), 1-based
InRectangle(r, c, line, col) ==
    /\ line >= Start(grid.heights, r)
    /\ line <= Start(grid.heights, r) + grid.heights[r] - 3
    /\ col >= Start(grid.widths, c)
    /\ col <= Start(grid.widths, c) + grid.widths[c] - 3

\* C15: every insert_text step changes only characters inside the rectangle
\* of its own cell; afterwards the top border, the bottom border and every
\* separator line are those of the skeleton and, in every interior line,
\* each vertical border stands at its character index of the skeleton.
C15_InsertionFrame ==
    [][(pc = "insert" /\ pc' \in {"insert", "done"}) =>
         LET skeleton == Shown(to_table(grid, TRUE).val)
             old == Shown(result)
             new == Shown(result')
             last == Len(skeleton) - 1
         IN  /\ Len(new) = Len(skeleton)
             /\ \A i \in 1..Len(new) :
                  /\ Len(new[i]) = Len(skeleton[i])
                  /\ \A j \in 1..Len(new[i]) :
                       \/ InRectangle(row_index + 1, column_index + 1, i - 1, j - 1)
                       \/ new[i][j] = old[i][j]
                  /\ IF (i - 1) \in ({0, last} \cup SeparatorLines(grid))
                     THEN new[i] = skeleton[i]
                     ELSE \A b \in BorderColumns(grid) :
                            new[i][b + 1] = VBar /\ skeleton[i][b + 1] = VBar
      ]_vars

C15_Witness ==
    /\ pc = "done"
    /\ "insert_text" \in called
    /\ U = 2
    /\ Len(contents) = 2
    /\ contents[1][1] = NestedText
    /\ contents[2][2] = TextTwoLines
    /\ Shown(result)[5] = ExpectedSeparator(grid)
    /\ Shown(result)[2] # Shown(to_table(grid, TRUE).val)[2]

-----------------------------------------------------------------------------
(* A StringStyle built by setter calls, then format_string                 *)

\* styles the caller starts from: the default, bold blue, every attribute set
InitialStyles ==
    {StringStyle_default,
     set_text_color(set_bold(StringStyle_default, TRUE), "Blue"),
     [bold |-> TRUE, faint |-> TRUE, italicized |-> TRUE, underline |-> TRUE,
      strikethrough |-> TRUE, blink |-> "Fast", color |-> "Red",
      background_color |-> "BrightWhite"]}

\* texts handed to format_string: "", "hi", "é;m"
StyleTexts == {<<>>, <<104, 105>>, EncodeStr(<<233, 59, 109>>)}

ColorValues == {StringColor[i] : i \in 1..Len(StringColor)}

BlinkValues == {StringBlinkSpeed[i] : i \in 1..Len(StringBlinkSpeed)}

InitStyle ==
    /\ initial_style \in InitialStyles
    /\ style = initial_style
    /\ written = [a \in Attributes |-> [set |-> FALSE, val |-> StringStyle_default[a]]]
    /\ n_calls = 0
    /\ input_text = <<>>
    /\ formatted = <<>>
    /\ pc = "style"
    /\ contents = <<>>
    /\ U = 0
    /\ grid = NoGrid
    /\ result = <<>>
    /\ row_index = 0
    /\ column_index = 0
    /\ called = {}

\* one setter call: attribute a is given value v, the call returns new_style
SetterCall(a, v, new_style) ==
    /\ pc = "style"
    /\ n_calls < MaxSetterCalls
    /\ style' = new_style
    /\ written' = [written EXCEPT ![a] = [set |-> TRUE, val |-> v]]
    /\ n_calls' = n_calls + 1
    /\ UNCHANGED <<initial_style, input_text, formatted, pc, table_vars>>

SetBold == \E v \in BOOLEAN : SetterCall("bold", v, set_bold(style, v))

SetItalicized == \E v \in BOOLEAN : SetterCall("italicized", v, set_italicized(style, v))

SetUnderline == \E v \in BOOLEAN : SetterCall("underline", v, set_underline(style, v))

SetStrikethrough ==
    \E v \in BOOLEAN : SetterCall("strikethrough", v, set_strikethrough(style, v))

SetFaint == \E v \in BOOLEAN : SetterCall("faint", v, set_faint(style, v))

SetTextColor == \E v \in ColorValues : SetterCall("color", v, set_text_color(style, v))

SetBackgroundColor ==
    \E v \in ColorValues :
        SetterCall("background_color", v, set_background_color(style, v))

SetBlinkSpeed == \E v \in BlinkValues : SetterCall("blink", v, set_blink_speed(style, v))

\* format_string(&text, &style)
FormatString ==
    /\ pc = "style"
    /\ \E t \in StyleTexts :
         /\ input_text' = t
         /\ formatted' = format_string(t, style)
    /\ pc' = "formatted"
    /\ UNCHANGED <<style, initial_style, written, n_calls, table_vars>>

NextStyle ==
    \/ SetBold
    \/ SetItalicized
    \/ SetUnderline
    \/ SetStrikethrough
    \/ SetFaint
    \/ SetTextColor
    \/ SetBackgroundColor
    \/ SetBlinkSpeed
    \/ FormatString

SpecStyle == InitStyle /\ [][NextStyle]_vars

-----------------------------------------------------------------------------
(* Properties of the styling, checked under SpecStyle                      *)

\* a number in decimal digits
RECURSIVE Decimal(_)
Decimal(n) == IF n < 10 THEN <<48 + n>> ELSE Decimal(n \div 10) \o <<48 + (n % 10)>>

\* 0-based position of colour c in the enum
ColorPosition(c) == (CHOOSE i \in 1..Len(StringColor) : StringColor[i] = c) - 1

\* SGR number of a foreground colour: 30..37, then 90..97
ForegroundNumber(c) ==
    IF ColorPosition(c) < 8 THEN 30 + ColorPosition(c) ELSE 90 + (ColorPosition(c) - 8)

\* the SGR numbers of the attributes that are set, in the fixed order
SgrNumbers(s) ==
    (IF s.bold THEN <<1>> ELSE <<>>)
    \o (IF s.faint THEN <<2>> ELSE <<>>)
    \o (IF s.italicized THEN <<3>> ELSE <<>>)
    \o (IF s.underline THEN <<4>> ELSE <<>>)
    \o (IF s.strikethrough THEN <<9>> ELSE <<>>)
    \o (IF s.blink = "Slow" THEN <<5>> ELSE IF s.blink = "Fast" THEN <<6>> ELSE <<>>)
    \o (IF s.color # "None" THEN <<ForegroundNumber(s.color)>> ELSE <<>>)
    \o (IF s.background_color # "None"
        THEN <<ForegroundNumber(s.background_color) + 10>> ELSE <<>>)

RECURSIVE JoinSemicolon(_)
JoinSemicolon(numbers) ==
    IF numbers = <<>> THEN <<>>
    ELSE IF Len(numbers) = 1 THEN Decimal(numbers[1])
    ELSE Decimal(numbers[1]) \o <<59>> \o JoinSemicolon(Tail(numbers))

\* C11: for a style that differs from the default, format_string returns
\* ESC[ + the numbers of the set attributes joined by single ';' in the order
\* bold, faint, italic, underline, strikethrough, blink, foreground,
\* background + 'm' + the input text + ESC[0m; the code list is not empty and
\* no ';' stands directly before the 'm'.
C11_FormatStringCodes ==
    (pc = "formatted" /\ style # StringStyle_default) =>
        LET prefix_len == Len(formatted) - Len(input_text) - 4
        IN  /\ SgrNumbers(style) # <<>>
            /\ formatted = <<27, 91>> \o JoinSemicolon(SgrNumbers(style)) \o <<109>>
                           \o input_text \o <<27, 91, 48, 109>>
            /\ prefix_len > 3
            /\ formatted[prefix_len] = 109
            /\ formatted[prefix_len - 1] \notin {59, 91}

C11_Witness ==
    /\ pc = "formatted"
    /\ n_calls = 3
    /\ style.bold
    /\ style.strikethrough
    /\ style.blink = "Slow"
    /\ style.color = "Blue"
    /\ ~style.faint
    /\ style.background_color = "None"
    /\ input_text = <<104, 105>>
    /\ formatted = <<27, 91, 49, 59, 57, 59, 53, 59, 51, 52, 109,
                     104, 105, 27, 91, 48, 109>>

\* C12: format_string returns the input unchanged exactly when the style
\* equals the default style, also when attributes were set and then set back.
C12_DefaultStyleUnchanged ==
    pc = "formatted" => ((formatted = input_text) <=> (style = StringStyle_default))

C12_Witness ==
    /\ pc = "formatted"
    /\ initial_style # StringStyle_default
    /\ n_calls = 2
    /\ style = StringStyle_default
    /\ input_text # <<>>
    /\ formatted = input_text

\* the value given to attribute a (of kind k) by setter call Apply
Apply(s, a, v) ==
    CASE a = "bold" -> set_bold(s, v)
      [] a = "faint" -> set_faint(s, v)
      [] a = "italicized" -> set_italicized(s, v)
      [] a = "underline" -> set_underline(s, v)
      [] a = "strikethrough" -> set_strikethrough(s, v)
      [] a = "blink" -> set_blink_speed(s, v)
      [] a = "color" -> set_text_color(s, v)
      [] a = "background_color" -> set_background_color(s, v)

ValuesOf(a) ==
    IF a = "blink" THEN BlinkValues
    ELSE IF a \in {"color", "background_color"} THEN ColorValues
    ELSE BOOLEAN

\* C13: after any sequence of setter calls each attribute holds the value of
\* the last call for it, or its initial value if there was none (so no setter
\* touches another attribute); two setter calls on different attributes give
\* the same style in either order (stated where two more calls are within
\* the call bound); the formatted text is that of the style made of the last
\* values.
C13_LastWriteWins ==
    /\ \A a \in Attributes :
         style[a] = IF written[a].set THEN written[a].val ELSE initial_style[a]
    /\ (pc = "style" /\ n_calls + 2 <= MaxSetterCalls) =>
         \A a \in Attributes : \A b \in Attributes \ {a} :
            \A va \in ValuesOf(a) : \A vb \in ValuesOf(b) :
               Apply(Apply(style, a, va), b, vb) = Apply(Apply(style, b, vb), a, va)
    /\ pc = "formatted" =>
         formatted = format_string(input_text,
                        [a \in Attributes |->
                            IF written[a].set THEN written[a].val ELSE initial_style[a]])

C13_Witness ==
    /\ n_calls = 3
    /\ initial_style.bold
    /\ initial_style.color = "Blue"
    /\ written["bold"].set
    /\ ~written["bold"].val
    /\ written["italicized"].set
    /\ written["italicized"].val
    /\ written["blink"].set
    /\ ~written["color"].set
    /\ style.color = "Blue"
    /\ ~style.bold
    /\ style.italicized

====
